---------------------------- MODULE Spec2Model ----------------------------
(***************************************************************************)
(* The observed-execution CFG engine of tracker (src/src/trace.c) and the  *)
(* tracing loop that drives it (main, src/src/tracker.c).                  *)
(*                                                                         *)
(* Pointers are modelled as indices into the sequence of allocated nodes   *)
(* (cfg_nodes); 0 is the NULL pointer.  64-bit words are modelled as       *)
(* sequences of 8 bytes, least significant byte first, so that the hash    *)
(* of an instruction is computed as fasthash64 computes it.  Every malloc, *)
(* calloc and realloc succeeds, except under SpecOom.                      *)
(*                                                                         *)
(* Specifications:                                                         *)
(*   Spec            the tracing loop over the instructions of Inputs      *)
(*   SpecLog         the same, with the history of the iterations          *)
(*   SpecCallReturn  the same, for a child that calls one function         *)
(*   SpecOom         the same, where one allocation per insert may fail    *)
(*   SpecClassify    instr_new on its own, over sizes and opcode bytes     *)
(*   SpecGraph       the tracing loop, then graph_create_function          *)
(*   SpecCompare     trace_compare on its own, over pairs of traces        *)
(*   SpecIndex       cfg_new on its own: nodes handed to hashtable_insert  *)
(***************************************************************************)
EXTENDS Integers, Sequences, FiniteSets, TLC

(***************************************************************************)
(* Bounds of the model.                                                    *)
(***************************************************************************)
\* number of instructions the tracing loop observes before the child exits
MaxObs == 7
\* the same, where the history of the iterations is recorded
MaxLog == 6
\* the same, where an allocation may return NULL
MaxOom == 5
\* the same, for the child that calls one function: two rounds of four instructions
MaxRun == 8
\* number of instructions observed before the graph of a function is drawn
MaxSynth == 5
\* number of elements of a trace handed to trace_compare
MaxTrace == 3
\* number of nodes handed to the index on its own
MaxIndex == 4

(***************************************************************************)
(* Program constants.                                                      *)
(***************************************************************************)
DEFAULT_HASHTABLE_SIZE == 65536
MAX_OPCODE_BYTES == 16
\* width of the uint16_t counters nb_in, nb_out and name
UINT16_MOD == 65536

NULL == 0
\* errno.h
EINVAL == 22

(***************************************************************************)
(* 64-bit unsigned arithmetic on little-endian byte sequences.             *)
(***************************************************************************)
RECURSIVE BitXor(_, _, _)
\* a ^ b for a, b < 2^n
BitXor(a, b, n) ==
  IF n = 0 THEN 0
  ELSE (((a % 2) + (b % 2)) % 2) + 2 * BitXor(a \div 2, b \div 2, n - 1)

RECURSIVE Pow2(_)
Pow2(n) == IF n = 0 THEN 1 ELSE 2 * Pow2(n - 1)

\* the uint64_t whose value is the natural number n
RECURSIVE NatBytes(_, _)
NatBytes(n, k) == IF k = 0 THEN << >> ELSE <<n % 256>> \o NatBytes(n \div 256, k - 1)
W64(n) == NatBytes(n, 8)

\* x ^ y
W64Xor(x, y) == [k \in 1..8 |-> BitXor(x[k], y[k], 8)]

\* x >> n
W64Shr(x, n) ==
  LET q == n \div 8
      r == n % 8
      byte(k) == IF k <= 8 THEN x[k] ELSE 0
  IN  [k \in 1..8 |-> ((byte(k + q) \div Pow2(r)) + byte(k + q + 1) * Pow2(8 - r)) % 256]

RECURSIVE ColumnSum(_, _, _, _)
\* sum of x[i] * y[k + 1 - i] for i in 1..n
ColumnSum(x, y, k, n) ==
  IF n = 0 THEN 0 ELSE x[n] * y[k + 1 - n] + ColumnSum(x, y, k, n - 1)

RECURSIVE MulBytes(_, _, _, _)
\* bytes k..8 of x * y, with the carry coming into column k
MulBytes(x, y, k, carry) ==
  IF k > 8 THEN << >>
  ELSE LET s == ColumnSum(x, y, k, k) + carry
       IN  <<s % 256>> \o MulBytes(x, y, k + 1, s \div 256)

\* x * y modulo 2^64
W64Mul(x, y) == MulBytes(x, y, 1, 0)

RECURSIVE ModBytes(_, _, _)
\* x modulo n, most significant byte first
ModBytes(x, n, k) ==
  IF k = 0 THEN 0 ELSE ((ModBytes(x, n, k - 1) * 256) + x[9 - k]) % n
W64Mod(x, n) == ModBytes(x, n, 8)

(***************************************************************************)
(* fasthash64 and hash_instr.                                              *)
(***************************************************************************)
\* 0x2127598bf4325c37
MIX_MULT == <<55, 92, 50, 244, 139, 89, 39, 33>>
\* 0x880355f21e6d1965
FASTHASH_M == <<101, 25, 109, 30, 242, 85, 3, 136>>

\* the macro mix(h): h ^= h >> 23; h *= 0x2127598bf4325c37; h ^= h >> 47
mix(h) ==
  LET h1 == W64Xor(h, W64Shr(h, 23))
      h2 == W64Mul(h1, MIX_MULT)
  IN  W64Xor(h2, W64Shr(h2, 47))

\* the little-endian word made of bytes from..from+n-1 of buf (n <= 8)
WordAt(buf, from, n) ==
  [k \in 1..8 |-> IF k <= n THEN buf[from + k - 1] ELSE 0]

RECURSIVE HashWords(_, _, _, _)
\* the loop over the whole 64-bit words of buf
HashWords(buf, pos, end, h) ==
  IF pos = end THEN h
  ELSE HashWords(buf, pos + 1, end,
                 W64Mul(W64Xor(h, mix(WordAt(buf, 8 * pos + 1, 8))), FASTHASH_M))

fasthash64(buf, len, seed) ==
  LET h0 == W64Xor(seed, W64Mul(W64(len), FASTHASH_M))
      h1 == HashWords(buf, 0, len \div 8, h0)
      rest == len % 8
      h2 == IF rest = 0 THEN h1
            ELSE W64Mul(W64Xor(h1, mix(WordAt(buf, 8 * (len \div 8) + 1, rest))),
                        FASTHASH_M)
  IN  mix(h2)

hash_instr(instr) == fasthash64(instr.opcodes, instr.size, W64(instr.address))

(***************************************************************************)
(* Instructions: instr_new and its classification of the opcode bytes.     *)
(* opcodes is the caller's buffer (MAX_OPCODE_BYTES bytes read from the    *)
(* child's memory); opcodes[i] of the C code is opcodes[i + 1] here.       *)
(***************************************************************************)
instr_type(size, opcodes) ==
  LET o0 == opcodes[1]
      o1 == opcodes[2]
      o2 == opcodes[3]
  IN  IF (o0 >= 112 /\ o0 <= 127)
         \/ (o0 = 15 /\ o1 >= 128 /\ o1 <= 143)
      THEN "BRANCH"
      ELSE IF o0 = 232
              \/ o0 = 154
              \/ (o0 = 255 /\ (((size = 2 /\ o1 >= 208 /\ o1 <= 223) \/ size = 3)
                               \/ o1 = 21))
              \/ (o0 = 65 /\ o1 = 255 /\ ((o2 >= 208 /\ o2 <= 215) \/ size > 3))
      THEN "CALL"
      ELSE IF (o0 >= 233 /\ o0 <= 235)
              \/ (o0 = 255 /\ (((size = 2 /\ o1 >= 224 /\ o1 <= 239)
                                \/ size = 4 \/ size = 5) \/ o1 = 37))
              \/ (o0 >= 224 /\ o0 <= 227)
              \/ (o0 = 65 /\ o1 = 255 /\ o2 >= 224 /\ o2 <= 231)
              \/ (o0 = 243 /\ (size = 2 \/ size = 3) /\ o1 # 195)
      THEN "JUMP"
      ELSE IF ((o0 = 195 \/ o0 = 203) /\ size = 1)
              \/ ((o0 = 194 \/ o0 = 202) /\ size = 3)
              \/ (o0 = 243 /\ o1 = 195 /\ size = 2)
      THEN "RET"
      ELSE "BASIC"

\* faulty variant: the classifier is given the size without the first byte
instr_new_size_off_by_one(addr, size, opcodes) ==
  IF size = 0 THEN NULL
  ELSE [address |-> addr,
        size    |-> size,
        opcodes |-> SubSeq(opcodes, 1, size),
        type    |-> instr_type(size - 1, opcodes)]

\* a null pointer in the place of the buffer of opcode bytes
NullBuffer == << >>

\* the test at the head of instr_new: size == 0 || opcodes == NULL
instr_new_invalid(size, opcodes) == size = 0 \/ opcodes = NullBuffer

\* errno after the call, e before it (malloc succeeds and leaves it alone)
instr_new_errno(size, opcodes, e) ==
  IF instr_new_invalid(size, opcodes) THEN EINVAL ELSE e

\* faulty variant: memcpy copies one byte
instr_new_copies_one_byte(addr, size, opcodes) ==
  IF instr_new_invalid(size, opcodes) THEN NULL
  ELSE [address |-> addr,
        size    |-> size,
        opcodes |-> SubSeq(opcodes, 1, 1),
        type    |-> instr_type(size, opcodes)]

\* the pointer instr_new returns: NULL on invalid input, else the new instr_t
instr_new(addr, size, opcodes) ==
  IF instr_new_invalid(size, opcodes) THEN NULL
  ELSE [address |-> addr,
        size    |-> size,
        opcodes |-> SubSeq(opcodes, 1, size),
        type    |-> instr_type(size, opcodes)]


(***************************************************************************)
(* The instructions the traced child can execute: the values of            *)
(* (ip, insn[0].size, buf) the tracing loop reads.  buf holds the bytes of *)
(* the instruction followed by the bytes that lie after it in memory.      *)
(*   CALL_SITE   0x1000  e8 00 10 00 00   call                              *)
(*   FALL        0x1005  90               nop, the fall-through of the call *)
(*   FALL_MOD    0x1005  cc               the same address, rewritten       *)
(*   RETURN      0x2001  c3               ret                               *)
(*   BRANCH_AT   0x1006  74 02            jz                                *)
(*   JUMP_AT     0x8b22  ff e0            jmp rax (the bucket of CALL_SITE) *)
(*   CALLEE      0x2000  90               nop, in front of RETURN           *)
(***************************************************************************)
Memory(bytes, following) ==
  [k \in 1..MAX_OPCODE_BYTES |->
     IF k <= Len(bytes) THEN bytes[k]
     ELSE IF k - Len(bytes) <= Len(following) THEN following[k - Len(bytes)]
     ELSE 0]

CALL_SITE == [ip |-> 4096,  size |-> 5, buf |-> Memory(<<232, 0, 16, 0, 0>>, <<144, 116, 2>>)]
FALL      == [ip |-> 4101,  size |-> 1, buf |-> Memory(<<144>>, <<116, 2>>)]
FALL_MOD  == [ip |-> 4101,  size |-> 1, buf |-> Memory(<<204>>, <<116, 2>>)]
RETURN    == [ip |-> 8193,  size |-> 1, buf |-> Memory(<<195>>, << >>)]
BRANCH_AT == [ip |-> 4102,  size |-> 2, buf |-> Memory(<<116, 2>>, << >>)]
JUMP_AT   == [ip |-> 35618, size |-> 2, buf |-> Memory(<<255, 224>>, << >>)]

CALLEE    == [ip |-> 8192,  size |-> 1, buf |-> Memory(<<144>>, <<195>>)]

Inputs == {CALL_SITE, FALL, FALL_MOD, RETURN, BRANCH_AT, JUMP_AT}

\* a child that calls one function and returns from it: call, nop, ret, nop
CallReturnInputs == {CALL_SITE, CALLEE, RETURN, FALL}

Instructions == {instr_new(i.ip, i.size, i.buf) : i \in Inputs \cup CallReturnInputs}

\* hash_instr (instr) % ht->size, for every instruction of the trace
BucketIndex ==
  [instr \in Instructions |-> W64Mod(hash_instr(instr), DEFAULT_HASHTABLE_SIZE)]

(***************************************************************************)
(* State of the tracing loop.                                              *)
(***************************************************************************)
VARIABLES
  cfg_nodes,        \* the allocated cfg_t structures; a pointer is an index
  ht,               \* the hashtable: size, collisions, entries, buckets
  stack,            \* the shadow call stack (stack_t *stack), top first
  first_entry,      \* the list first_entry ... tail_entries of function entries
  cfg,              \* the node of the previous instruction (cfg_t *cfg)
  instr_count,      \* number of instructions inserted so far
  status,           \* "tracing", or "error" once main has called err()
  call_targets,     \* history: the nodes created by an insert right after a CALL
  trace,            \* history: the successful iterations, where it is recorded
  freed,            \* the nodes that were handed to cfg_delete
  alloc_failed,     \* the allocation that returned NULL in the last iteration, or "none"
  fetched,          \* (ip, insn[0].size, buf) handed to instr_new on its own, or NULL
  decoded,          \* the instruction that call of instr_new returned, << >> when none
  errno,            \* errno, 0 until a call sets it
  graph,            \* << >>, or what graph_create_function made of the graph g
  t1, t2,           \* the two traces handed to trace_compare
  compared          \* << >>, or the element of t2 that trace_compare returned

vars == <<cfg_nodes, ht, stack, first_entry, cfg, instr_count, status, call_targets,
          trace, freed, alloc_failed, fetched, decoded, errno, graph, t1, t2, compared>>

(***************************************************************************)
(* Hashtable.  buckets maps the indices of the non-NULL buckets to the     *)
(* NULL-terminated arrays of node pointers they hold.                      *)
(***************************************************************************)
hashtable_new(size) ==
  [size |-> size, collisions |-> 0, entries |-> 0, buckets |-> << >>]

\* position of the first entry of bucket b whose instruction has address addr, or 0
RECURSIVE ScanBucket(_, _, _, _)
ScanBucket(nodes, b, addr, k) ==
  IF k > Len(b) THEN 0
  ELSE IF nodes[b[k]].instruction.address = addr THEN k
  ELSE ScanBucket(nodes, b, addr, k + 1)

\* faulty variant: collisions is incremented before the scan of the bucket
hashtable_insert_counts_before_scan(h, nodes, CFG) ==
  LET index == BucketIndex[nodes[CFG].instruction]
  IN  IF index \notin DOMAIN h.buckets
      THEN [ht  |-> [h EXCEPT !.buckets = (index :> <<CFG>>) @@ h.buckets,
                              !.entries = h.entries + 1],
            ret |-> TRUE]
      ELSE IF ScanBucket(nodes, h.buckets[index], nodes[CFG].instruction.address, 1) # 0
      THEN [ht |-> [h EXCEPT !.collisions = h.collisions + 1], ret |-> TRUE]
      ELSE [ht  |-> [h EXCEPT !.collisions = h.collisions + 1,
                              !.entries = h.entries + 1,
                              !.buckets[index] = Append(h.buckets[index], CFG)],
            ret |-> TRUE]

hashtable_insert(h, nodes, CFG) ==
  LET index == BucketIndex[nodes[CFG].instruction]
  IN  IF index \notin DOMAIN h.buckets
      THEN [ht  |-> [h EXCEPT !.buckets = (index :> <<CFG>>) @@ h.buckets,
                              !.entries = h.entries + 1],
            ret |-> TRUE]
      ELSE IF ScanBucket(nodes, h.buckets[index], nodes[CFG].instruction.address, 1) # 0
      THEN [ht |-> h, ret |-> TRUE]
      ELSE [ht  |-> [h EXCEPT !.collisions = h.collisions + 1,
                              !.entries = h.entries + 1,
                              !.buckets[index] = Append(h.buckets[index], CFG)],
            ret |-> TRUE]

\* faulty variant: the scan compares the instr_t pointers, and instr is a fresh allocation
hashtable_lookup_by_pointer(h, nodes, instr) == NULL

\* faulty variant: k is advanced before the comparison, so the scan skips the first entry
hashtable_lookup_skip_first(h, nodes, instr) ==
  LET index == BucketIndex[instr]
  IN  IF index \notin DOMAIN h.buckets THEN NULL
      ELSE LET k == ScanBucket(nodes, h.buckets[index], instr.address, 2)
           IN  IF k = 0 THEN NULL ELSE h.buckets[index][k]

hashtable_entries(h) == h.entries

hashtable_collisions(h) == h.collisions

hashtable_lookup(h, nodes, instr) ==
  LET index == BucketIndex[instr]
  IN  IF index \notin DOMAIN h.buckets THEN NULL
      ELSE LET k == ScanBucket(nodes, h.buckets[index], instr.address, 1)
           IN  IF k = 0 THEN NULL ELSE h.buckets[index][k]

(***************************************************************************)
(* Stack.                                                                  *)
(***************************************************************************)
\* faulty variant: a call site already on top of the stack is not pushed again
stack_push_once(s, d) == IF s # << >> /\ Head(s) = d THEN s ELSE <<d>> \o s

stack_push(s, d) == <<d>> \o s

stack_pop(s) == IF s = << >> THEN << >> ELSE Tail(s)

stack_get_top(s) == IF s = << >> THEN NULL ELSE Head(s)

\* faulty variant: the new element is linked in front of the list
list_insert_front(l, d) == <<d>> \o l

\* list_insert_after (tail, d), seen on the whole list: d becomes the tail
list_insert_after(l, d) == Append(l, d)

(***************************************************************************)
(* CFG nodes.  successor is the array behind CFG->successor: its length is  *)
(* the number of elements the allocation was asked for, NULL in the slots  *)
(* calloc has zeroed and nothing has been stored in.                       *)
(***************************************************************************)
cfg_new(w, ins) ==
  LET CFG   == Len(w.nodes) + 1
      node  == [instruction |-> ins,
                nb_in       |-> 0,
                nb_out      |-> 0,
                name        |-> 0,
                successor   |-> IF ins.type = "BASIC" THEN <<NULL>> ELSE <<NULL, NULL>>]
      nodes == Append(w.nodes, node)
  IN  [w   |-> [w EXCEPT !.nodes = nodes,
                         !.ht = hashtable_insert(w.ht, nodes, CFG).ht],
       ret |-> CFG]

RECURSIVE is_power_2_loop(_)
\* while (n % 2 == 0) { if (n == 2) return true; n = n / 2; } return false;
is_power_2_loop(n) ==
  IF n % 2 = 0
  THEN IF n = 2 THEN TRUE ELSE is_power_2_loop(n \div 2)
  ELSE FALSE

\* faulty variant: the test for 2 comes after the halving, so that 2 is not recognised
is_power_2_above_2(n) == n > 2 /\ is_power_2_loop(n)

is_power_2(n) == IF n = 0 THEN FALSE ELSE is_power_2_loop(n)

\* realloc (CFG->successor, n * sizeof (cfg_t *))
realloc(successor, n) ==
  [k \in 1..n |-> IF k <= Len(successor) THEN successor[k] ELSE NULL]

\* faulty variant: the new successor is stored in slot 0, whatever i is
add_successor_in_slot_0(nodes, CFG, i, new) ==
  LET n1 == [nodes EXCEPT ![CFG].successor = [@ EXCEPT ![1] = new],
                          ![CFG].nb_out = (@ + 1) % UINT16_MOD]
      n2 == [n1 EXCEPT ![new].nb_in = (@ + 1) % UINT16_MOD]
  IN  [n2 EXCEPT ![new].name = n2[CFG].name]

\* CFG->successor[i] = new; CFG->nb_out++; new->nb_in++; new->name = CFG->name
add_successor(nodes, CFG, i, new) ==
  LET n1 == [nodes EXCEPT ![CFG].successor =
                            IF i + 1 <= Len(@) THEN [@ EXCEPT ![i + 1] = new] ELSE @,
                          ![CFG].nb_out = (@ + 1) % UINT16_MOD]
      n2 == [n1 EXCEPT ![new].nb_in = (@ + 1) % UINT16_MOD]
  IN  [n2 EXCEPT ![new].name = n2[CFG].name]

\* faulty variant: the array is never reallocated
grow_successor_never(nodes, CFG) == nodes

\* the growth of the successor array shared by the JUMP and RET cases
grow_successor(nodes, CFG) ==
  IF is_power_2(nodes[CFG].nb_out)
  THEN [nodes EXCEPT ![CFG].successor = realloc(@, 2 * nodes[CFG].nb_out)]
  ELSE nodes

\* faulty variant: the scan stops after the first successor
is_successor_first_slot(nodes, CFG, addr) ==
  /\ nodes[CFG].nb_out >= 1
  /\ nodes[CFG].successor[1] # NULL
  /\ nodes[nodes[CFG].successor[1]].instruction.address = addr

\* faulty variant: the scan of the successors never finds the node
is_successor_never(nodes, CFG, addr) == FALSE

\* is there an i < CFG->nb_out with CFG->successor[i]->instruction->address = addr
is_successor(nodes, CFG, addr) ==
  \E i \in 1..nodes[CFG].nb_out :
     /\ i <= Len(nodes[CFG].successor)
     /\ nodes[CFG].successor[i] # NULL
     /\ nodes[nodes[CFG].successor[i]].instruction.address = addr

\* faulty variant: the bound of a BASIC node is tested with > instead of >=
basic_is_full_above_1(nb_out) == nb_out > 1

\* case BASIC: if (CFG->nb_out >= 1) return NULL
basic_is_full(nb_out) == nb_out >= 1

\* faulty variant: the bound of a BRANCH is tested with > instead of >=
branch_is_full_above_2(nb_out) == nb_out > 2

\* case BRANCH: if (CFG->nb_out >= 2) return NULL
branch_is_full(nb_out) == nb_out >= 2

\* faulty variant: a CALL whose slot 0 is taken gets the node appended, as a JUMP does
aux_cfg_insert_call_appends(w, CFG, new) ==
  IF new = NULL THEN [w |-> w, ret |-> NULL]
  ELSE
  LET type == w.nodes[CFG].instruction.type
      append(w1, C) ==
        [w   |-> [w1 EXCEPT !.nodes =
                    add_successor(grow_successor(w1.nodes, C), C, w1.nodes[C].nb_out, new)],
         ret |-> new]
  IN  IF type # "RET" /\ w.nodes[CFG].successor[1] = NULL
      THEN [w |-> [w EXCEPT !.nodes = add_successor(w.nodes, CFG, 0, new)], ret |-> new]
      ELSE CASE type = "BASIC" ->
                  IF basic_is_full(w.nodes[CFG].nb_out) THEN [w |-> w, ret |-> NULL]
                  ELSE [w |-> w, ret |-> new]
             [] type = "BRANCH" ->
                  IF branch_is_full(w.nodes[CFG].nb_out) THEN [w |-> w, ret |-> NULL]
                  ELSE [w |-> [w EXCEPT !.nodes = add_successor(w.nodes, CFG, 1, new)],
                        ret |-> new]
             [] type \in {"JUMP", "CALL"} -> append(w, CFG)
             [] type = "RET" ->
                  LET top == stack_get_top(w.stack)
                  IN  IF w.stack # << >>
                         /\ w.nodes[new].instruction.address
                              = w.nodes[top].instruction.address
                                + w.nodes[top].instruction.size
                      THEN LET w1 == [w EXCEPT !.stack = stack_pop(w.stack)]
                           IN  IF is_successor(w1.nodes, top,
                                               w1.nodes[new].instruction.address)
                               THEN [w |-> w1, ret |-> new]
                               ELSE append(w1, top)
                      ELSE append(w, CFG)
             [] OTHER -> [w |-> w, ret |-> new]

aux_cfg_insert(w, CFG, new) ==
  IF new = NULL THEN [w |-> w, ret |-> NULL]
  ELSE
  LET type == w.nodes[CFG].instruction.type
      append(w1, C) ==
        [w   |-> [w1 EXCEPT !.nodes =
                    add_successor(grow_successor(w1.nodes, C), C, w1.nodes[C].nb_out, new)],
         ret |-> new]
  IN  IF type # "RET" /\ w.nodes[CFG].successor[1] = NULL
      THEN [w |-> [w EXCEPT !.nodes = add_successor(w.nodes, CFG, 0, new)], ret |-> new]
      ELSE CASE type = "BASIC" ->
                  IF basic_is_full(w.nodes[CFG].nb_out) THEN [w |-> w, ret |-> NULL]
                  ELSE [w |-> w, ret |-> new]
             [] type = "BRANCH" ->
                  IF branch_is_full(w.nodes[CFG].nb_out) THEN [w |-> w, ret |-> NULL]
                  ELSE [w |-> [w EXCEPT !.nodes = add_successor(w.nodes, CFG, 1, new)],
                        ret |-> new]
             [] type = "JUMP" -> append(w, CFG)
             [] type = "RET" ->
                  LET top == stack_get_top(w.stack)
                  IN  IF w.stack # << >>
                         /\ w.nodes[new].instruction.address
                              = w.nodes[top].instruction.address
                                + w.nodes[top].instruction.size
                      THEN LET w1 == [w EXCEPT !.stack = stack_pop(w.stack)]
                           IN  IF is_successor(w1.nodes, top,
                                               w1.nodes[new].instruction.address)
                               THEN [w |-> w1, ret |-> new]
                               ELSE append(w1, top)
                      ELSE append(w, CFG)
             [] OTHER -> [w |-> w, ret |-> new]

cfg_insert(w, CFG, ins) ==
  IF CFG = NULL THEN [w |-> w, ret |-> NULL]
  ELSE
  LET found == hashtable_lookup(w.ht, w.nodes, ins)
  IN  IF found = NULL
      THEN LET c  == cfg_new(w, ins)
               w1 == IF w.nodes[CFG].instruction.type = "CALL"
                     THEN [c.w EXCEPT !.tail = list_insert_after(c.w.tail, c.ret),
                                      !.stack = stack_push(c.w.stack, CFG)]
                     ELSE c.w
           IN  aux_cfg_insert(w1, CFG, c.ret)
      ELSE LET w1 == IF w.nodes[CFG].instruction.type = "CALL"
                     THEN [w EXCEPT !.stack = stack_push(w.stack, CFG)]
                     ELSE w
           IN  IF is_successor(w1.nodes, CFG, w1.nodes[found].instruction.address)
               THEN [w |-> w1, ret |-> found]
               ELSE aux_cfg_insert(w1, CFG, found)

(***************************************************************************)
(* The tracing loop of main: one iteration per executed instruction.       *)
(***************************************************************************)
World == [nodes |-> cfg_nodes, ht |-> ht, stack |-> stack, tail |-> first_entry]

LoopInit ==
  /\ cfg_nodes = << >>
  /\ ht = hashtable_new(DEFAULT_HASHTABLE_SIZE)
  /\ stack = << >>
  /\ first_entry = << >>
  /\ cfg = NULL
  /\ instr_count = 0
  /\ status = "tracing"
  /\ call_targets = << >>
  /\ trace = << >>
  /\ freed = {}
  /\ alloc_failed = "none"

\* what the tracing loop does not use
Idle ==
  /\ errno = 0
  /\ graph = << >>
  /\ t1 = << >>
  /\ t2 = << >>
  /\ compared = << >>

Init ==
  /\ LoopInit
  /\ fetched = NULL
  /\ decoded = << >>
  /\ Idle

\* the first instruction of the trace: cfg is still NULL
Start(in) ==
  /\ status = "tracing"
  /\ cfg = NULL
  /\ \E instr \in {instr_new(in.ip, in.size, in.buf)} :
     \E c \in {cfg_new(World, instr)} :
         /\ cfg_nodes' = c.w.nodes
         /\ ht' = c.w.ht
         /\ stack' = c.w.stack
         /\ cfg' = c.ret
         /\ first_entry' = <<c.ret>>
  /\ instr_count' = instr_count + 1
  /\ UNCHANGED <<status, call_targets>>

\* every later instruction: cfg = cfg_insert (...), err() when it returns NULL
Insert(in) ==
  /\ status = "tracing"
  /\ cfg # NULL
  /\ \E instr \in {instr_new(in.ip, in.size, in.buf)} :
     \E r \in {cfg_insert(World, cfg, instr)} :
         /\ cfg_nodes' = r.w.nodes
         /\ ht' = r.w.ht
         /\ stack' = r.w.stack
         /\ first_entry' = r.w.tail
         /\ cfg' = r.ret
         /\ status' = IF r.ret = NULL THEN "error" ELSE "tracing"
         /\ instr_count' = IF r.ret = NULL THEN instr_count ELSE instr_count + 1
         /\ call_targets' =
              IF /\ hashtable_lookup(ht, cfg_nodes, instr) = NULL
                 /\ cfg_nodes[cfg].instruction.type = "CALL"
              THEN Append(call_targets, r.ret)
              ELSE call_targets

\* the child executes at most MaxObs instructions, any of Inputs at each step
Next ==
  \/ \E in \in Inputs : /\ instr_count < MaxObs
                          /\ Start(in)
                          /\ UNCHANGED <<trace, freed, alloc_failed, fetched, decoded, errno, graph, t1, t2, compared>>
  \/ \E in \in Inputs : /\ instr_count < MaxObs
                          /\ Insert(in)
                          /\ UNCHANGED <<trace, freed, alloc_failed, fetched, decoded, errno, graph, t1, t2, compared>>

Spec == Init /\ [][Next]_vars

(***************************************************************************)
(* The same loop with the history of its iterations: trace holds, for each *)
(* iteration that did not end in err(), the previous node and what was     *)
(* read from the child.                                                    *)
(***************************************************************************)
LogStart(in) ==
  /\ Start(in)
  /\ trace' = Append(trace, [prev |-> NULL, in |-> in])
  /\ UNCHANGED <<freed, alloc_failed, fetched, decoded, errno, graph, t1, t2, compared>>

LogInsert(in) ==
  /\ Insert(in)
  /\ trace' = IF status' = "tracing" THEN Append(trace, [prev |-> cfg, in |-> in])
              ELSE trace
  /\ UNCHANGED <<freed, alloc_failed, fetched, decoded, errno, graph, t1, t2, compared>>

NextLog ==
  \/ \E in \in Inputs : instr_count < MaxLog /\ LogStart(in)
  \/ \E in \in Inputs : instr_count < MaxLog /\ LogInsert(in)

SpecLog == Init /\ [][NextLog]_vars

\* the child that executes call, nop, ret, nop, in any order the tracer may see them
NextCallReturn ==
  \/ \E in \in CallReturnInputs : instr_count < MaxRun /\ LogStart(in)
  \/ \E in \in CallReturnInputs : instr_count < MaxRun /\ LogInsert(in)

SpecCallReturn == Init /\ [][NextCallReturn]_vars

(***************************************************************************)
(* The same loop when malloc, calloc or realloc can return NULL.  In one   *)
(* call of cfg_insert the allocation named by fail, if the call reaches    *)
(* it, returns NULL; w.failed tells whether it was reached.                *)
(*   "node"       calloc of the node or of its parts in cfg_new            *)
(*   "bucket"     calloc of the bucket in hashtable_insert                 *)
(*   "successor"  realloc of the successor array in aux_cfg_insert         *)
(***************************************************************************)
AllocSites == {"node", "bucket", "successor"}

\* cfg_new returns NULL when its calloc fails; it ignores the result of
\* hashtable_insert, which returns false and stores nothing when its calloc fails
cfg_new_oom(w, ins, fail) ==
  IF fail = "node" THEN [w |-> [w EXCEPT !.failed = fail], ret |-> NULL]
  ELSE IF fail = "bucket"
  THEN [w   |-> [cfg_new(w, ins).w EXCEPT !.ht = w.ht, !.failed = fail],
        ret |-> cfg_new(w, ins).ret]
  ELSE cfg_new(w, ins)

\* CFG->successor = realloc (...) is NULL: cfg_delete (CFG); return NULL
realloc_fails(w, CFG) ==
  [w   |-> [w EXCEPT !.nodes[CFG].successor = << >>,
                     !.freed = @ \cup {CFG},
                     !.failed = "successor"],
   ret |-> NULL]

aux_cfg_insert_oom(w, CFG, new, fail) ==
  IF new = NULL \/ fail # "successor" THEN aux_cfg_insert(w, CFG, new)
  ELSE
  LET type == w.nodes[CFG].instruction.type
      top  == stack_get_top(w.stack)
  IN  IF type = "JUMP" /\ w.nodes[CFG].successor[1] # NULL
      THEN IF is_power_2(w.nodes[CFG].nb_out) THEN realloc_fails(w, CFG)
           ELSE aux_cfg_insert(w, CFG, new)
      ELSE IF type = "RET"
      THEN IF w.stack # << >>
              /\ w.nodes[new].instruction.address
                   = w.nodes[top].instruction.address + w.nodes[top].instruction.size
           THEN IF ~is_successor(w.nodes, top, w.nodes[new].instruction.address)
                   /\ is_power_2(w.nodes[top].nb_out)
                THEN realloc_fails([w EXCEPT !.stack = stack_pop(w.stack)], top)
                ELSE aux_cfg_insert(w, CFG, new)
           ELSE IF is_power_2(w.nodes[CFG].nb_out) THEN realloc_fails(w, CFG)
                ELSE aux_cfg_insert(w, CFG, new)
      ELSE aux_cfg_insert(w, CFG, new)

cfg_insert_oom(w, CFG, ins, fail) ==
  IF CFG = NULL THEN [w |-> w, ret |-> NULL]
  ELSE
  LET found == hashtable_lookup(w.ht, w.nodes, ins)
  IN  IF found = NULL
      THEN LET c  == cfg_new_oom(w, ins, fail)
               w1 == IF w.nodes[CFG].instruction.type = "CALL"
                     THEN [c.w EXCEPT !.tail = list_insert_after(c.w.tail, c.ret),
                                      !.stack = stack_push(c.w.stack, CFG)]
                     ELSE c.w
           IN  aux_cfg_insert_oom(w1, CFG, c.ret, fail)
      ELSE LET w1 == IF w.nodes[CFG].instruction.type = "CALL"
                     THEN [w EXCEPT !.stack = stack_push(w.stack, CFG)]
                     ELSE w
           IN  IF is_successor(w1.nodes, CFG, w1.nodes[found].instruction.address)
               THEN [w |-> w1, ret |-> found]
               ELSE aux_cfg_insert_oom(w1, CFG, found, fail)

OomWorld ==
  [nodes |-> cfg_nodes, ht |-> ht, stack |-> stack, tail |-> first_entry,
   freed |-> freed, failed |-> "none"]

\* an iteration in which the allocation at site fail returns NULL
InsertOom(in, fail) ==
  /\ status = "tracing"
  /\ cfg # NULL
  /\ \E instr \in {instr_new(in.ip, in.size, in.buf)} :
     \E r \in {cfg_insert_oom(OomWorld, cfg, instr, fail)} :
         /\ r.w.failed = fail
         /\ cfg_nodes' = r.w.nodes
         /\ ht' = r.w.ht
         /\ stack' = r.w.stack
         /\ first_entry' = r.w.tail
         /\ freed' = r.w.freed
         /\ alloc_failed' = r.w.failed
         /\ cfg' = r.ret
         /\ status' = IF r.ret = NULL THEN "error" ELSE "tracing"
         /\ instr_count' = IF r.ret = NULL THEN instr_count ELSE instr_count + 1
  /\ UNCHANGED <<call_targets, trace, fetched, decoded, errno, graph, t1, t2, compared>>

NextOom ==
  \/ \E in \in Inputs : /\ instr_count < MaxOom
                          /\ Start(in)
                          /\ UNCHANGED <<trace, freed, alloc_failed, fetched, decoded, errno, graph, t1, t2, compared>>
  \/ \E in \in Inputs : /\ instr_count < MaxOom
                          /\ Insert(in)
                          /\ alloc_failed' = "none"
                          /\ UNCHANGED <<trace, freed, fetched, decoded, errno, graph, t1, t2, compared>>
  \/ \E in \in Inputs : \E fail \in AllocSites :
                          /\ instr_count < MaxOom
                          /\ InsertOom(in, fail)

SpecOom == Init /\ [][NextOom]_vars

(***************************************************************************)
(* instr_new on its own: one call on a size and a buffer whose first three *)
(* bytes take the values on both sides of every bound the classifier       *)
(* tests, at one of two addresses.                                         *)
(***************************************************************************)
Opcode0 == {15, 65, 111, 112, 127, 128, 144, 154, 194, 195, 202, 203,
            223, 224, 227, 228, 232, 233, 235, 236, 243, 255}
Opcode1 == {0, 21, 37, 127, 128, 143, 144, 195, 207, 208, 223, 224, 239, 240, 255}
Opcode2 == {0, 207, 208, 215, 216, 223, 224, 231, 232}
Sizes == 1..(MAX_OPCODE_BYTES - 1)
Addresses == {4096, 8193}

InitClassify ==
  /\ LoopInit
  /\ fetched \in {[ip |-> a, size |-> n, buf |-> Memory(<<o0, o1, o2>>, << >>)] :
                    a \in Addresses, n \in {0} \cup Sizes,
                    o0 \in Opcode0, o1 \in Opcode1, o2 \in Opcode2}
                 \cup {[ip |-> a, size |-> n, buf |-> NullBuffer] :
                         a \in Addresses, n \in {0} \cup Sizes}
  /\ decoded = << >>
  /\ Idle

\* instr = instr_new (ip, size, buf): decoded holds instr unless it is NULL
Classify ==
  /\ decoded = << >>
  /\ decoded' = IF instr_new_invalid(fetched.size, fetched.buf) THEN << >>
                ELSE <<instr_new(fetched.ip, fetched.size, fetched.buf)>>
  /\ errno' = instr_new_errno(fetched.size, fetched.buf, errno)
  /\ UNCHANGED <<cfg_nodes, ht, stack, first_entry, cfg, instr_count, status,
                 call_targets, trace, freed, alloc_failed, fetched,
                 graph, t1, t2, compared>>

SpecClassify == InitClassify /\ [][Classify]_vars

(***************************************************************************)
(* Block synthesis: graph_create_function (tracker.c) on the graph g that  *)
(* main opens with agopen ("G", Agstrictdirected, NULL).  cgraph names a   *)
(* node by a string: agnode (g, name, TRUE) returns the node of that name  *)
(* and creates it when there is none, so an Agnode_t pointer is modelled   *)
(* by the name, and g by the set of names and the set of edges (a strict   *)
(* graph holds one edge per pair, loops allowed).  A name is the sequence  *)
(* of the lines sprintf joined with "\n"; NoNode is the NULL Agnode_t.     *)
(***************************************************************************)
NoNode == << >>

\* name_node as main formats it: address, bytes, then the text the
\* disassembler derives from those bytes at that address
name_node(instr) == [addr |-> instr.address, bytes |-> instr.opcodes]

\* CFG->str_graph, the copy of name_node that cfg_new stored
cfg_get_str(nodes, CFG) == name_node(nodes[CFG].instruction)

\* faulty variant: the line is put in front of the text
concat_str_in_front(dest, follow) == <<follow>> \o dest

\* dest == NULL is the empty sequence of lines
concat_str(dest, follow) == Append(dest, follow)

agopen == [nodes |-> {}, edges |-> {}]

agnode(g, name) == [g EXCEPT !.nodes = @ \cup {name}]

\* agedge (g, t, h, NULL, FALSE) != NULL, for a tail t that is not NULL
agedge_find(g, t, h) == <<t, h>> \in g.edges

\* agedge (g, t, h, NULL, TRUE), for a tail t that is not NULL
agedge(g, t, h) == [g EXCEPT !.edges = @ \cup {<<t, h>>}]

\* if (!agedge (g, n, m, NULL, FALSE)) agedge (g, n, m, NULL, TRUE);
link(g, n, m) == IF agedge_find(g, n, m) THEN g ELSE agedge(g, n, m)

\* what becomes of the run once agedge is handed a NULL tail, which cgraph
\* does not define: the process dies, or the call returns without an edge
NullTailOutcomes == {"crash", "no edge"}

\* how a call of graph_create_function ends
Returned(g) == [g |-> g, outcome |-> "done"]
Crashed(g) == [g |-> g, outcome |-> "crash"]
Diverges(g) == [g |-> g, outcome |-> "diverges"]

\* the same two calls without the test of n in front (lines 275, 286)
link_unguarded(g, n, m, ub) ==
  IF n # NoNode THEN Returned(link(g, n, m))
  ELSE IF ub = "crash" THEN Crashed(g)
  ELSE Returned(g)

\* faulty variant: the search takes the first successor, whatever its address
fall_through_first(nodes, old, i) ==
  IF i >= nodes[old].nb_out THEN NULL ELSE nodes[old].successor[i + 1]

\* the search for the successor that follows the CALL in memory (lines 240-249)
RECURSIVE fall_through(_, _, _)
fall_through(nodes, old, i) ==
  IF i >= nodes[old].nb_out THEN NULL
  ELSE LET new == nodes[old].successor[i + 1]
       IN  IF nodes[old].instruction.address + nodes[old].instruction.size
                = nodes[new].instruction.address
           THEN new
           ELSE fall_through(nodes, old, i + 1)

(***************************************************************************)
(* graph_create_function (g, entry, n).  walk is its while loop, taken up  *)
(* at the test of the loop with old and str_bb as they are there.  A call  *)
(* that returns gives the graph it leaves behind.  Two arguments are not   *)
(* in the code; they make a run that never returns a value of its own:     *)
(*   seen   the nodes the loop of this call has been at before: the loop   *)
(*          decides on old alone, so it never leaves once it is back at one *)
(*   chain  the entries of the calls in progress that line 234 has made    *)
(*          one from the other: line 234 tests nothing but the CFG, so a   *)
(*          call for one of them makes the same calls again, without end   *)
(***************************************************************************)
RECURSIVE graph_create_function(_, _, _, _, _, _)
RECURSIVE walk(_, _, _, _, _, _, _, _, _)
RECURSIVE recurse_successors(_, _, _, _, _, _)

\* for (i = 0; i < cfg_get_nb_out (old); i++) graph_create_function (g, successor i, m)
recurse_successors(nodes, g, old, m, i, ub) ==
  IF i >= nodes[old].nb_out THEN Returned(g)
  ELSE LET r == graph_create_function(nodes, g, nodes[old].successor[i + 1], m, {}, ub)
       IN  IF r.outcome # "done" THEN r
           ELSE recurse_successors(nodes, r.g, old, m, i + 1, ub)

walk(nodes, g, entry, n, old, str_bb, seen, chain, ub) ==
  LET type == nodes[old].instruction.type
      s    == concat_str(str_bb, cfg_get_str(nodes, old))
  IN  IF type = "BASIC" \/ type = "CALL"
      THEN IF old \in seen THEN Diverges(g)
           ELSE IF old # entry /\ nodes[old].nb_in > 1
           THEN \* not the beginning of the function and more than one parent
                LET g1 == IF n # NoNode THEN link(agnode(g, str_bb), n, str_bb)
                          ELSE agnode(g, str_bb)
                IN  IF old \in chain THEN Diverges(g1)
                    ELSE graph_create_function(nodes, g1, old, str_bb, chain, ub)
           ELSE IF type = "CALL"
           THEN LET new == fall_through(nodes, old, 0)
                IN  IF new = NULL
                    THEN Returned(IF n # NoNode THEN link(agnode(g, s), n, s)
                                  ELSE agnode(g, s))
                    ELSE walk(nodes, g, entry, n, new, s, seen \cup {old}, chain, ub)
           ELSE IF nodes[old].nb_out = 0
           THEN link_unguarded(agnode(g, s), n, s, ub)
           ELSE LET next == nodes[old].successor[1]
                IN  IF next = entry
                    THEN \* the instruction is its own parent
                         LET r   == link_unguarded(agnode(g, s), n, s, ub)
                             tmp == <<cfg_get_str(nodes, next)>>
                         IN  IF r.outcome # "done" THEN r
                             ELSE Returned(agedge(agedge(agnode(r.g, tmp), s, tmp),
                                                  tmp, tmp))
                    ELSE walk(nodes, g, entry, n, next, s, seen \cup {old}, chain, ub)
      ELSE \* end of a basic block
           LET g1 == agnode(g, s)
           IN  IF n # NoNode
               THEN IF agedge_find(g1, n, s) THEN Returned(g1)
                    ELSE IF type = "BRANCH" \/ type = "JUMP"
                    THEN recurse_successors(nodes, agedge(g1, n, s), old, s, 0, ub)
                    ELSE Returned(agedge(g1, n, s))
               ELSE IF type = "BRANCH" \/ type = "JUMP"
               THEN recurse_successors(nodes, g1, old, s, 0, ub)
               ELSE Returned(g1)

graph_create_function(nodes, g, entry, n, chain, ub) ==
  walk(nodes, g, entry, n, entry, << >>, {}, chain \cup {entry}, ub)

list_get_ith(l, i) == IF i + 1 > Len(l) THEN NULL ELSE l[i + 1]

\* the instructions of the child whose graph is drawn
GraphInputs == {CALL_SITE, FALL, CALLEE, RETURN, BRANCH_AT, JUMP_AT}

\* main, after the tracing loop: g = graph_create_function (g, list_get_ith
\* (first_entry, i), NULL).  main asks for one fixed entry of the roster;
\* here the root is any entry the roster holds.
Synthesize(i, ub) ==
  /\ status = "tracing"
  /\ cfg # NULL
  /\ graph = << >>
  /\ list_get_ith(first_entry, i) # NULL
  /\ \E r \in {graph_create_function(cfg_nodes, agopen, list_get_ith(first_entry, i),
                                     NoNode, {}, ub)} :
        graph' = <<[entry |-> list_get_ith(first_entry, i), g |-> r.g,
                    outcome |-> r.outcome]>>
  /\ UNCHANGED <<cfg_nodes, ht, stack, first_entry, cfg, instr_count, status,
                 call_targets, trace, freed, alloc_failed, fetched, decoded,
                 errno, t1, t2, compared>>

NextGraph ==
  \/ \E in \in GraphInputs :
        /\ instr_count < MaxSynth
        /\ graph = << >>
        /\ Start(in)
        /\ UNCHANGED <<trace, freed, alloc_failed, fetched, decoded, errno, graph, t1, t2, compared>>
  \/ \E in \in GraphInputs :
        /\ instr_count < MaxSynth
        /\ graph = << >>
        /\ Insert(in)
        /\ UNCHANGED <<trace, freed, alloc_failed, fetched, decoded, errno, graph, t1, t2, compared>>
  \/ \E i \in 0..(MaxSynth - 1), ub \in NullTailOutcomes : Synthesize(i, ub)

SpecGraph == Init /\ [][NextGraph]_vars

(***************************************************************************)
(* trace_compare on its own.  A trace is the list of its elements, each    *)
(* holding an instr_t; a pointer to an element is the pair of the list it  *)
(* is in (1 for t1, 2 for t2) and its position, NoElement is the NULL one. *)
(***************************************************************************)
NoElement == << >>

\* the instructions the two traces are made of: two of them share an address
TraceInstructions ==
  {instr_new(i.ip, i.size, i.buf) : i \in {CALL_SITE, FALL, FALL_MOD}}

\* trace_new (ins) followed by up to MaxTrace - 1 calls of trace_insert
Traces == UNION {[1..n -> TraceInstructions] : n \in 1..MaxTrace}

\* tmp->next
next(t, tmp) == IF tmp[2] < Len(t) THEN <<tmp[1], tmp[2] + 1>> ELSE NoElement

\* faulty variant: NULL is returned as soon as either list ends
RECURSIVE trace_compare_null_at_end(_, _, _, _)
trace_compare_null_at_end(a, b, tmp1, tmp2) ==
  IF a[tmp1[2]].address = b[tmp2[2]].address
  THEN IF next(a, tmp1) = NoElement \/ next(b, tmp2) = NoElement THEN NoElement
       ELSE trace_compare_null_at_end(a, b, next(a, tmp1), next(b, tmp2))
  ELSE tmp2

\* the loop of trace_compare, entered with tmp1 and tmp2
RECURSIVE trace_compare_loop(_, _, _, _)
trace_compare_loop(a, b, tmp1, tmp2) ==
  IF a[tmp1[2]].address = b[tmp2[2]].address
  THEN IF next(a, tmp1) = NoElement THEN next(b, tmp2)
       ELSE IF next(b, tmp2) = NoElement THEN NoElement
       ELSE trace_compare_loop(a, b, next(a, tmp1), next(b, tmp2))
  ELSE tmp2

trace_compare(a, b) == trace_compare_loop(a, b, <<1, 1>>, <<2, 1>>)

InitCompare ==
  /\ LoopInit
  /\ fetched = NULL
  /\ decoded = << >>
  /\ errno = 0
  /\ graph = << >>
  /\ t1 \in Traces
  /\ t2 \in Traces
  /\ compared = << >>

\* compared holds the pointer trace_compare (t1, t2) returned
Compare ==
  /\ compared = << >>
  /\ compared' = <<trace_compare(t1, t2)>>
  /\ UNCHANGED <<cfg_nodes, ht, stack, first_entry, cfg, instr_count, status,
                 call_targets, trace, freed, alloc_failed, fetched, decoded,
                 errno, graph, t1, t2>>

SpecCompare == InitCompare /\ [][Compare]_vars

(***************************************************************************)
(* The index on its own: cfg_new called without the lookup cfg_insert      *)
(* makes in front of it, so that hashtable_insert also meets nodes whose   *)
(* address is in the bucket already.                                       *)
(***************************************************************************)
New(in) ==
  /\ \E instr \in {instr_new(in.ip, in.size, in.buf)} :
     \E c \in {cfg_new(World, instr)} :
         /\ cfg_nodes' = c.w.nodes
         /\ ht' = c.w.ht
  /\ instr_count' = instr_count + 1
  /\ UNCHANGED <<stack, first_entry, cfg, status, call_targets, trace, freed,
                 alloc_failed, fetched, decoded, errno, graph, t1, t2, compared>>

NextIndex == \E in \in Inputs : instr_count < MaxIndex /\ New(in)

SpecIndex == Init /\ [][NextIndex]_vars

(***************************************************************************)
(* Vocabulary of the properties.                                           *)
(***************************************************************************)
Nodes == 1..Len(cfg_nodes)

TypeOf(n) == cfg_nodes[n].instruction.type
AddressOf(n) == cfg_nodes[n].instruction.address
SizeOf(n) == cfg_nodes[n].instruction.size

\* the successor list of node n in the heap nodes: slots 0 .. nb_out - 1
SuccessorList(nodes, n) ==
  [i \in 1..(IF nodes[n].nb_out <= Len(nodes[n].successor)
             THEN nodes[n].nb_out ELSE Len(nodes[n].successor)) |-> nodes[n].successor[i]]

\* node n has a successor whose instruction lies at address addr
HasSuccessorAt(nodes, n, addr) ==
  \E i \in DOMAIN SuccessorList(nodes, n) :
     /\ SuccessorList(nodes, n)[i] # NULL
     /\ nodes[SuccessorList(nodes, n)[i]].instruction.address = addr

\* s is what is left of t after removing elements from its top
IsSuffix(s, t) ==
  /\ Len(s) <= Len(t)
  /\ s = SubSeq(t, Len(t) - Len(s) + 1, Len(t))

\* a step of the tracing loop that called cfg_insert with previous node cfg
InsertStep == cfg # NULL /\ (instr_count' # instr_count \/ status' # status)

\* the call observed, after a RET, the instruction that follows the CALL on top of
\* the shadow stack; cfg' is the node N of the observed instruction
MatchedReturnStep ==
  /\ InsertStep
  /\ cfg' # NULL
  /\ TypeOf(cfg) = "RET"
  /\ stack # << >>
  /\ cfg_nodes'[cfg'].instruction.address = AddressOf(Head(stack)) + SizeOf(Head(stack))

\* nb_in of node n before the step (0 for a node the step creates)
OldNbIn(n) == IF n \in Nodes THEN cfg_nodes[n].nb_in ELSE 0

(***************************************************************************)
(* C1: in every observe whose previous node P is a RET, with a non-empty   *)
(* shadow stack whose top C satisfies N.address = C.address + C.size, N is *)
(* afterwards a successor of C (appended once, with N.nb_in incremented,   *)
(* if it was not one already; nothing added if it was), and the successor  *)
(* list and nb_out of the RET node P are unchanged.                        *)
(***************************************************************************)
C1_MatchedReturnEdge ==
  [][MatchedReturnStep =>
       LET C == Head(stack)
           N == cfg'
           addr == cfg_nodes'[N].instruction.address
       IN  /\ HasSuccessorAt(cfg_nodes', C, addr)
           /\ IF HasSuccessorAt(cfg_nodes, C, addr)
              THEN /\ SuccessorList(cfg_nodes', C) = SuccessorList(cfg_nodes, C)
                   /\ cfg_nodes'[C].nb_out = cfg_nodes[C].nb_out
              ELSE /\ SuccessorList(cfg_nodes', C) = Append(SuccessorList(cfg_nodes, C), N)
                   /\ cfg_nodes'[C].nb_out = cfg_nodes[C].nb_out + 1
                   /\ cfg_nodes'[N].nb_in = OldNbIn(N) + 1
           /\ SuccessorList(cfg_nodes', cfg) = SuccessorList(cfg_nodes, cfg)
           /\ cfg_nodes'[cfg].nb_out = cfg_nodes[cfg].nb_out]_vars

(***************************************************************************)
(* C2: the shadow stack is popped in exactly the observe calls where P is  *)
(* a RET, the stack is non-empty and N.address = top.address + top.size;   *)
(* such a call removes exactly the top element, and no other observe call  *)
(* removes an element.                                                     *)
(***************************************************************************)
C2_PopExactlyOnMatchedReturn ==
  [][InsertStep =>
       IF MatchedReturnStep
       THEN stack' = Tail(stack)
       ELSE IsSuffix(stack, stack')]_vars

(***************************************************************************)
(* C3: every observe whose previous node P is a CALL pushes P on the       *)
(* shadow stack exactly once, whether N is new or known and also when the  *)
(* edge P -> N exists already; an observe whose P is no CALL pushes        *)
(* nothing.                                                                *)
(***************************************************************************)
C3_PushOnEveryCall ==
  [][InsertStep =>
       IF TypeOf(cfg) = "CALL"
       THEN stack' = <<cfg>> \o stack
       ELSE IsSuffix(stack', stack)]_vars

\* the same CALL node was pushed twice, the second time over an existing edge
C3_Witness ==
  /\ Len(stack) >= 2
  /\ stack[1] = stack[2]
  /\ TypeOf(stack[1]) = "CALL"
  /\ cfg_nodes[stack[1]].nb_out = 1
  /\ cfg = cfg_nodes[stack[1]].successor[1]

(***************************************************************************)
(* C4: after successful observations the list of function entries holds    *)
(* 1 + (number of inserts that created a node right after a CALL)          *)
(* elements: the first instruction ever observed, then these call targets  *)
(* in the order they were observed, no node twice.                         *)
(***************************************************************************)
C4_FunctionRoster ==
  (status = "tracing" /\ cfg # NULL) =>
     /\ Len(first_entry) = 1 + Len(call_targets)
     /\ first_entry = <<1>> \o call_targets
     /\ \A i, j \in DOMAIN first_entry : i < j => first_entry[i] < first_entry[j]

\* two functions have been entered besides the program's entry
C4_Witness ==
  /\ status = "tracing"
  /\ Len(first_entry) >= 3
  /\ Len(call_targets) >= 2

(***************************************************************************)
(* C5: a node created right after a CALL gets the name (function tag)      *)
(* |F| - 1, its index in the list of function entries: the k-th entry has  *)
(* name k, and distinct entries have distinct names.                       *)
(***************************************************************************)
C5_FunctionTagIsRosterIndex ==
  \A k \in DOMAIN first_entry : cfg_nodes[first_entry[k]].name = k - 1

(***************************************************************************)
(* C6: after every observe, nb_in of every node is the number of distinct  *)
(* nodes whose successor list contains it.                                 *)
(***************************************************************************)
Predecessors(n) ==
  {m \in Nodes : \E i \in 1..cfg_nodes[m].nb_out :
                    i <= Len(cfg_nodes[m].successor) /\ cfg_nodes[m].successor[i] = n}

C6_InDegree ==
  \A n \in Nodes : cfg_nodes[n].nb_in = Cardinality(Predecessors(n))

RECURSIVE SumNbOut(_)
SumNbOut(n) == IF n = 0 THEN 0 ELSE cfg_nodes[n].nb_out + SumNbOut(n - 1)

\* a join node exists, and some insert has found its edge installed already (without
\* a CALL node every insert either adds an edge or finds the edge it would add)
C6_Witness ==
  /\ \E n \in Nodes : cfg_nodes[n].nb_in >= 2
  /\ \A n \in Nodes : TypeOf(n) # "CALL"
  /\ status = "tracing"
  /\ instr_count - 1 > SumNbOut(Len(cfg_nodes))

(***************************************************************************)
(* C7: every BASIC node has nb_out <= 1 and every BRANCH node nb_out <= 2. *)
(***************************************************************************)
C7_OutDegreeByType ==
  \A n \in Nodes :
     /\ TypeOf(n) = "BASIC" => cfg_nodes[n].nb_out <= 1
     /\ TypeOf(n) = "BRANCH" => cfg_nodes[n].nb_out <= 2

\* a full BASIC node and a full BRANCH node exist and an insert has been refused
C7_Witness ==
  /\ status = "error"
  /\ \E n \in Nodes : TypeOf(n) = "BASIC" /\ cfg_nodes[n].nb_out = 1
  /\ \E n \in Nodes : TypeOf(n) = "BRANCH" /\ cfg_nodes[n].nb_out = 2

(***************************************************************************)
(* C8: nb_out of every node is at most the capacity of its successor       *)
(* array, and that capacity is a power of two: 1 for a BASIC node,         *)
(* otherwise 2, doubled to 4, 8, ... only when the array is full; a JUMP   *)
(* node with four targets has nb_out 4 and capacity 4.                     *)
(***************************************************************************)
Capacity(n) == Len(cfg_nodes[n].successor)

PowersOfTwo == {Pow2(k) : k \in 0..16}

C8_Capacity ==
  \A n \in Nodes :
     /\ cfg_nodes[n].nb_out <= Capacity(n)
     /\ Capacity(n) \in PowersOfTwo
     /\ TypeOf(n) = "BASIC" => Capacity(n) = 1
     /\ TypeOf(n) # "BASIC" => Capacity(n) >= 2
     /\ Capacity(n) > 2 => 2 * cfg_nodes[n].nb_out > Capacity(n)
     /\ (TypeOf(n) = "JUMP" /\ cfg_nodes[n].nb_out = 4) => Capacity(n) = 4

\* a JUMP node has accumulated four targets at four distinct addresses
C8_Witness ==
  \E n \in Nodes :
     /\ TypeOf(n) = "JUMP"
     /\ cfg_nodes[n].nb_out = 4
     /\ Capacity(n) = 4
     /\ Cardinality({AddressOf(SuccessorList(cfg_nodes, n)[i]) : i \in 1..4}) = 4

(***************************************************************************)
(* C9: no successor list holds two entries with the same instruction       *)
(* address.                                                                *)
(***************************************************************************)
C9_NoDuplicateSuccessorAddress ==
  \A n \in Nodes :
     \A i, j \in DOMAIN SuccessorList(cfg_nodes, n) :
        i # j => AddressOf(SuccessorList(cfg_nodes, n)[i])
                   # AddressOf(SuccessorList(cfg_nodes, n)[j])

(***************************************************************************)
(* C10: for every node n stored in the hashtable, the lookup of n's        *)
(* instruction returns n, and every node that was created is stored.       *)
(***************************************************************************)
Stored == UNION {{ht.buckets[x][k] : k \in DOMAIN ht.buckets[x]} : x \in DOMAIN ht.buckets}

C10_LookupFindsEveryNode ==
  /\ \A n \in Stored : hashtable_lookup(ht, cfg_nodes, cfg_nodes[n].instruction) = n
  /\ Stored = Nodes

\* a bucket holds a chain of two nodes, and two nodes share an address
C10_Witness ==
  /\ \E x \in DOMAIN ht.buckets : Len(ht.buckets[x]) = 2
  /\ \E m, n \in Stored : m # n /\ AddressOf(m) = AddressOf(n)

(***************************************************************************)
(* C11: instruction identity is the address alone: the index holds at most *)
(* one node per address, the lookup of an address that has a node returns  *)
(* that node whatever opcode bytes come with it, and the entries counter   *)
(* is the number of distinct addresses observed.                           *)
(***************************************************************************)
C11_IdentityIsAddress ==
  /\ \A m, n \in Nodes : AddressOf(m) = AddressOf(n) => m = n
  /\ \A n \in Nodes : \A instr \in Instructions :
        instr.address = AddressOf(n) => hashtable_lookup(ht, cfg_nodes, instr) = n
  /\ ht.entries = Cardinality({AddressOf(n) : n \in Nodes})

(***************************************************************************)
(* C12: an observe of an instruction whose address is in the index creates *)
(* no node (the entries counter is unchanged), and when the edge P -> N    *)
(* was installed earlier, observing N after P again leaves nb_out and the  *)
(* successor list of P and nb_in of N unchanged.                           *)
(***************************************************************************)
C12_ReobserveAddsNothing ==
  [][\A in \in Inputs :
       ((\E n \in Nodes : AddressOf(n) = in.ip) /\ Insert(in)) =>
          /\ Len(cfg_nodes') = Len(cfg_nodes)
          /\ ht'.entries = ht.entries
          /\ HasSuccessorAt(cfg_nodes, cfg, in.ip) =>
               /\ cfg_nodes'[cfg].nb_out = cfg_nodes[cfg].nb_out
               /\ SuccessorList(cfg_nodes', cfg) = SuccessorList(cfg_nodes, cfg)
               /\ \A n \in Nodes : AddressOf(n) = in.ip =>
                     cfg_nodes'[n].nb_in = cfg_nodes[n].nb_in]_vars

(***************************************************************************)
(* C13 as stated: when the same (ip, size, bytes) is observed again after  *)
(* the same previous node P as in an earlier successful observe, the state *)
(* after the repeat (index, successor lists and degrees, function roster,  *)
(* shadow stack) is the state without the repeat.                          *)
(***************************************************************************)
\* in was observed after the current previous node in an earlier successful iteration
Repeated(in) ==
  /\ cfg # NULL
  /\ \E k \in DOMAIN trace : trace[k] = [prev |-> cfg, in |-> in]

C13_ObserveIsIdempotent ==
  [][\A in \in Inputs :
       (Repeated(in) /\ LogInsert(in)) =>
          /\ cfg_nodes' = cfg_nodes
          /\ ht' = ht
          /\ first_entry' = first_entry
          /\ stack' = stack]_vars

(***************************************************************************)
(* C13 amended: such a repeat succeeds, creates no node and leaves the     *)
(* index and the function roster as they are; unless P is a RET it leaves  *)
(* every successor list and degree as they are; the shadow stack is        *)
(* unchanged when P is neither a CALL nor a RET, has P pushed once more    *)
(* when P is a CALL, and loses at most its top when P is a RET.            *)
(***************************************************************************)
C13_RepeatKeepsGraph ==
  [][\A in \in Inputs :
       (Repeated(in) /\ LogInsert(in)) =>
          /\ status' = "tracing"
          /\ Len(cfg_nodes') = Len(cfg_nodes)
          /\ ht' = ht
          /\ first_entry' = first_entry
          /\ TypeOf(cfg) # "RET" => cfg_nodes' = cfg_nodes
          /\ stack' = CASE TypeOf(cfg) = "CALL" -> <<cfg>> \o stack
                        [] TypeOf(cfg) = "RET" /\ stack' # stack -> Tail(stack)
                        [] OTHER -> stack]_vars

\* a pair (P, input) was observed twice with P a CALL, and another twice with P a JUMP
\* holding two successors
C13_Witness ==
  /\ \E j, k \in DOMAIN trace :
        /\ j < k /\ trace[j] = trace[k] /\ trace[k].prev # NULL
        /\ TypeOf(trace[k].prev) = "CALL"
  /\ \E j, k \in DOMAIN trace :
        /\ j < k /\ trace[j] = trace[k] /\ trace[k].prev # NULL
        /\ TypeOf(trace[k].prev) = "JUMP"
        /\ cfg_nodes[trace[k].prev].nb_out = 2

(***************************************************************************)
(* C14: when P is a BASIC node with nb_out 1, or a BRANCH node with        *)
(* nb_out 2, and no successor of P lies at the address of the observed     *)
(* instruction, the observe fails and installs no edge: the successor      *)
(* list, nb_out and nb_in of every node are what they were (a node the     *)
(* call created has no edge).                                              *)
(***************************************************************************)
\* the previous node can take no further successor
PreviousIsFull ==
  \/ TypeOf(cfg) = "BASIC" /\ cfg_nodes[cfg].nb_out = 1
  \/ TypeOf(cfg) = "BRANCH" /\ cfg_nodes[cfg].nb_out = 2

C14_FullNodeRefusesEdge ==
  [][\A in \in Inputs :
       (/\ cfg # NULL
        /\ PreviousIsFull
        /\ ~HasSuccessorAt(cfg_nodes, cfg, in.ip)
        /\ Insert(in)) =>
          /\ status' = "error"
          /\ cfg' = NULL
          /\ \A n \in Nodes :
                /\ SuccessorList(cfg_nodes', n) = SuccessorList(cfg_nodes, n)
                /\ cfg_nodes'[n].nb_out = cfg_nodes[n].nb_out
                /\ cfg_nodes'[n].nb_in = cfg_nodes[n].nb_in
          /\ \A n \in 1..Len(cfg_nodes') :
                n \notin Nodes => cfg_nodes'[n].nb_out = 0 /\ cfg_nodes'[n].nb_in = 0]_vars

\* an observe was refused by a full BRANCH node while a full BASIC node exists
C14_Witness ==
  /\ status = "error"
  /\ \E n \in Nodes :
        /\ TypeOf(n) = "BRANCH" /\ cfg_nodes[n].nb_out = 2
        /\ \E i \in 1..2 : TypeOf(cfg_nodes[n].successor[i]) = "BASIC"
                           /\ cfg_nodes[cfg_nodes[n].successor[i]].nb_out = 1
  /\ \E n \in Nodes : cfg_nodes[n].nb_in = 0 /\ cfg_nodes[n].nb_out = 0 /\ n > 1

(***************************************************************************)
(* C15: when an allocation fails during an observe (node creation, bucket  *)
(* growth or growth of a successor array), the observe reports failure, no *)
(* node that existed before is freed or altered, the function roster and   *)
(* the shadow stack are unchanged, and a node the call created is released *)
(* and is neither in the index, nor in the roster, nor in a successor      *)
(* list.                                                                   *)
(***************************************************************************)
\* the nodes some successor array of the heap nodes points to
Successors(nodes) ==
  UNION {{SuccessorList(nodes, m)[i] : i \in DOMAIN SuccessorList(nodes, m)} :
           m \in 1..Len(nodes)}

\* the nodes in the buckets of the hashtable h
Indexed(h) == UNION {{h.buckets[x][k] : k \in DOMAIN h.buckets[x]} : x \in DOMAIN h.buckets}

C15_AllocationFailureKeepsState ==
  [][alloc_failed' # "none" =>
       /\ status' = "error"
       /\ cfg' = NULL
       /\ freed' \cap Nodes = freed \cap Nodes
       /\ \A n \in Nodes : cfg_nodes'[n] = cfg_nodes[n]
       /\ first_entry' = first_entry
       /\ stack' = stack
       /\ \A n \in 1..Len(cfg_nodes') :
             n \notin Nodes =>
                /\ n \in freed'
                /\ n \notin Indexed(ht')
                /\ n \notin Successors(cfg_nodes')
                /\ \A k \in DOMAIN first_entry' : first_entry'[k] # n]_vars

(***************************************************************************)
(* C16: when P is a RET and the shadow stack is empty or its top C has     *)
(* C.address + C.size different from the observed address, the observe     *)
(* succeeds, leaves the shadow stack unchanged, and afterwards the RET     *)
(* node P has a successor at the observed address: if it had none before,  *)
(* N is appended to P's list, whose array is doubled when nb_out was 2, 4, *)
(* 8, ... and keeps its capacity otherwise.                                *)
(***************************************************************************)
\* the observed address is not the return address of the call on top of the stack
Unmatched(addr) ==
  \/ stack = << >>
  \/ addr # AddressOf(Head(stack)) + SizeOf(Head(stack))

C16_UnmatchedReturnEdge ==
  [][\A in \in Inputs :
       (/\ cfg # NULL
        /\ TypeOf(cfg) = "RET"
        /\ Unmatched(in.ip)
        /\ Insert(in)) =>
          /\ status' = "tracing"
          /\ cfg' # NULL
          /\ cfg_nodes'[cfg'].instruction.address = in.ip
          /\ stack' = stack
          /\ HasSuccessorAt(cfg_nodes', cfg, in.ip)
          /\ ~HasSuccessorAt(cfg_nodes, cfg, in.ip) =>
               /\ SuccessorList(cfg_nodes', cfg)
                    = Append(SuccessorList(cfg_nodes, cfg), cfg')
               /\ cfg_nodes'[cfg].nb_out = cfg_nodes[cfg].nb_out + 1
               /\ Len(cfg_nodes'[cfg].successor) =
                    IF cfg_nodes[cfg].nb_out \in PowersOfTwo \ {1}
                    THEN 2 * cfg_nodes[cfg].nb_out
                    ELSE Len(cfg_nodes[cfg].successor)]_vars

\* a RET node has three successors in an array grown to four, none of them at the
\* return address of the call that is on top of the shadow stack
C16_Witness ==
  /\ status = "tracing"
  /\ stack # << >>
  /\ \E n \in Nodes :
        /\ TypeOf(n) = "RET"
        /\ cfg_nodes[n].nb_out = 3
        /\ Capacity(n) = 4
        /\ ~HasSuccessorAt(cfg_nodes, n, AddressOf(Head(stack)) + SizeOf(Head(stack)))

(***************************************************************************)
(* C17: for every opcode byte sequence and every size in 1..15 the type of *)
(* the constructed instruction is the tag of the first rule of the table   *)
(* of section 4.1, taken in the order BRANCH, CALL, JUMP, RET, that        *)
(* matches, and BASIC when none matches.                                   *)
(***************************************************************************)
\* the pattern of each tag in the rule table; o[k + 1] is opcodes[k]
RuleMatches(tag, size, o) ==
  CASE tag = "BRANCH" ->
         \/ o[1] \in 112..127
         \/ o[1] = 15 /\ o[2] \in 128..143
    [] tag = "CALL" ->
         \/ o[1] = 232
         \/ o[1] = 154
         \/ o[1] = 255 /\ size = 2 /\ o[2] \in 208..223
         \/ o[1] = 255 /\ o[2] = 21
         \/ o[1] = 255 /\ size = 3
         \/ o[1] = 65 /\ o[2] = 255 /\ o[3] \in 208..215
         \/ o[1] = 65 /\ o[2] = 255 /\ size > 3
    [] tag = "JUMP" ->
         \/ o[1] \in 233..235
         \/ o[1] = 255 /\ size = 2 /\ o[2] \in 224..239
         \/ o[1] = 255 /\ o[2] = 37
         \/ o[1] = 255 /\ size \in {4, 5}
         \/ o[1] \in 224..227
         \/ o[1] = 65 /\ o[2] = 255 /\ o[3] \in 224..231
         \/ o[1] = 243 /\ size \in {2, 3} /\ o[2] # 195
    [] tag = "RET" ->
         \/ o[1] \in {195, 203} /\ size = 1
         \/ o[1] \in {194, 202} /\ size = 3
         \/ o[1] = 243 /\ o[2] = 195 /\ size = 2
    [] OTHER -> FALSE

RuleOrder == <<"BRANCH", "CALL", "JUMP", "RET">>

FirstMatch(size, o) ==
  LET hits == {k \in DOMAIN RuleOrder : RuleMatches(RuleOrder[k], size, o)}
  IN  IF hits = {} THEN "BASIC"
      ELSE RuleOrder[CHOOSE k \in hits : \A j \in hits : k <= j]

C17_TypeFollowsRuleTable ==
  decoded # << >> =>
     /\ decoded[1].size = fetched.size
     /\ decoded[1].type = FirstMatch(fetched.size, fetched.buf)

\* 41 ff e0 with size 4 matches the CALL rule and the JUMP rule and was tagged CALL
C17_Witness ==
  /\ decoded # << >>
  /\ fetched.size = 4
  /\ SubSeq(fetched.buf, 1, 3) = <<65, 255, 224>>
  /\ RuleMatches("CALL", fetched.size, fetched.buf)
  /\ RuleMatches("JUMP", fetched.size, fetched.buf)
  /\ decoded[1].type = "CALL"

(***************************************************************************)
(* C18: the type depends only on the size and on the first size bytes: a   *)
(* second construction with the same size and the same opcodes[0..size]    *)
(* yields the same type, whatever bytes follow them in the buffer and      *)
(* whatever the address is.                                                *)
(***************************************************************************)
\* the buffers that hold the instruction of fetched followed by other bytes
SameInstruction ==
  {Memory(SubSeq(fetched.buf, 1, fetched.size), <<o1, o2>>) : o1 \in Opcode1, o2 \in Opcode2}

C18_TypeDependsOnOwnBytes ==
  decoded # << >> =>
     \A a \in Addresses : \A buf \in SameInstruction :
        instr_new(a, fetched.size, buf).type = decoded[1].type

(***************************************************************************)
(* C19 as stated: when the sequence call, callee, ret, fall-through of     *)
(* scenario S2 is traced a second time over the CFG of the first run, the  *)
(* second run changes no nb_out and no nb_in, creates no node and leaves   *)
(* the function roster unchanged.                                          *)
(***************************************************************************)
RunTwice == <<CALL_SITE, CALLEE, RETURN, FALL, CALL_SITE, CALLEE, RETURN, FALL>>

\* the first run is complete and in is the next observation of the second run
InSecondRun(in) ==
  /\ Len(trace) \in 4..7
  /\ \A k \in DOMAIN trace : trace[k].in = RunTwice[k]
  /\ in = RunTwice[Len(trace) + 1]

C19_SecondRunAddsNothing ==
  [][\A in \in CallReturnInputs :
       (InSecondRun(in) /\ LogInsert(in)) =>
          /\ Len(cfg_nodes') = Len(cfg_nodes)
          /\ first_entry' = first_entry
          /\ \A n \in Nodes :
                /\ cfg_nodes'[n].nb_out = cfg_nodes[n].nb_out
                /\ cfg_nodes'[n].nb_in = cfg_nodes[n].nb_in]_vars

(***************************************************************************)
(* C19 amended: the first observe of the second run, the call seen after   *)
(* the fall-through, installs the edge fall-through -> call (one nb_out    *)
(* and one nb_in incremented); the three observes that follow succeed and  *)
(* change no successor list and no degree; no observe of the second run    *)
(* creates a node or changes the index or the function roster.             *)
(***************************************************************************)
C19_SecondRunAddsLinkOnly ==
  [][\A in \in CallReturnInputs :
       (InSecondRun(in) /\ LogInsert(in)) =>
          /\ status' = "tracing"
          /\ Len(cfg_nodes') = Len(cfg_nodes)
          /\ ht' = ht
          /\ first_entry' = first_entry
          /\ IF Len(trace) = 4
             THEN /\ SuccessorList(cfg_nodes', cfg) = <<cfg'>>
                  /\ SuccessorList(cfg_nodes, cfg) = << >>
                  /\ AddressOf(cfg) = FALL.ip
                  /\ AddressOf(cfg') = CALL_SITE.ip
                  /\ cfg_nodes'[cfg'].nb_in = cfg_nodes[cfg'].nb_in + 1
                  /\ \A n \in Nodes \ {cfg} :
                        SuccessorList(cfg_nodes', n) = SuccessorList(cfg_nodes, n)
                  /\ \A n \in Nodes \ {cfg'} : cfg_nodes'[n].nb_in = cfg_nodes[n].nb_in
             ELSE cfg_nodes' = cfg_nodes]_vars

\* both runs are complete: four nodes, the roster of the first run, an empty stack
C19_Witness ==
  /\ status = "tracing"
  /\ Len(trace) = 8
  /\ \A k \in DOMAIN trace : trace[k].in = RunTwice[k]
  /\ Len(cfg_nodes) = 4
  /\ Len(first_entry) = 2
  /\ stack = << >>

(***************************************************************************)
(* C20: every traced transfer is recorded: after each successful observe   *)
(* with previous node P and observed node N, N is among the successors of  *)
(* P, or, when the observe is a matched return, among the successors of    *)
(* the call site C that was popped.                                        *)
(***************************************************************************)
C20_EveryTransferIsRecorded ==
  [][(InsertStep /\ status' = "tracing") =>
       IF MatchedReturnStep
       THEN HasSuccessorAt(cfg_nodes', Head(stack), cfg_nodes'[cfg'].instruction.address)
       ELSE HasSuccessorAt(cfg_nodes', cfg, cfg_nodes'[cfg'].instruction.address)]_vars

(***************************************************************************)
(* Block synthesis.                                                        *)
(***************************************************************************)
\* the node whose display text is the line
NodeOfLine(line) == CHOOSE c \in Nodes : cfg_get_str(cfg_nodes, c) = line

\* C21: from every function root of every CFG the tracing loop builds, block
\* synthesis returns and leaves a block graph, cycles included
C21_SynthesisYieldsGraph ==
  graph # << >> => graph[1].outcome = "done"


\* the graph was drawn from a BASIC root whose only successor is the root itself
SelfLoopRoot ==
  /\ graph # << >>
  /\ TypeOf(graph[1].entry) = "BASIC"
  /\ cfg_nodes[graph[1].entry].nb_out = 1
  /\ cfg_nodes[graph[1].entry].successor[1] = graph[1].entry

\* C22: for a BASIC root A whose only successor is A, synthesis returns with a
\* block [A], a tail node other than that block which carries A's text, an edge
\* from the block to the tail and a self-edge on the tail
C22_SelfLoopTail ==
  SelfLoopRoot =>
    LET text  == cfg_get_str(cfg_nodes, graph[1].entry)
        block == <<text>>
        g     == graph[1].g
    IN  /\ graph[1].outcome = "done"
        /\ block \in g.nodes
        /\ \E tail \in g.nodes :
              /\ tail # block
              /\ \E k \in 1..Len(tail) : tail[k] = text
              /\ <<block, tail>> \in g.edges
              /\ <<tail, tail>> \in g.edges


\* C23: in the graph drawn from root R, no block holds at a position after its
\* first a node other than R that has more than one predecessor, of any type
C23_JoinStartsBlock ==
  graph # << >> =>
    \A b \in graph[1].g.nodes :
      \A k \in 2..Len(b) :
         \/ NodeOfLine(b[k]) = graph[1].entry
         \/ cfg_nodes[NodeOfLine(b[k])].nb_in <= 1


(***************************************************************************)
(* Construction of an instruction.                                         *)
(***************************************************************************)
\* C24: instr_new on size 0 or on a null opcode pointer returns no instruction
\* and sets errno to EINVAL; on any other input it returns an instruction with
\* the address, the size and the first size bytes it was given
C24_InstructionConstruction ==
  [][Classify =>
       IF fetched.size = 0 \/ fetched.buf = NullBuffer
       THEN /\ decoded' = << >>
            /\ errno' = EINVAL
       ELSE /\ Len(decoded') = 1
            /\ decoded'[1].address = fetched.ip
            /\ decoded'[1].size = fetched.size
            /\ decoded'[1].opcodes = SubSeq(fetched.buf, 1, fetched.size)
            /\ errno' = errno]_vars

C24_Witness ==
  /\ fetched.size = 3
  /\ fetched.buf = NullBuffer
  /\ decoded = << >>
  /\ errno = EINVAL


(***************************************************************************)
(* Comparison of two traces.                                               *)
(***************************************************************************)
\* the element of t2 at position k has another address than the one of t1 there
DiffersAt(k) == k <= Len(t1) /\ t2[k].address # t1[k].address

\* the element of t2 at position k has no element of t1 at its position
BeyondT1(k) == k > Len(t1)

\* C25: trace_compare returns the first element of t2 whose address differs
\* from the element of t1 at the same position, and NULL when there is none
C25_FirstDifference ==
  compared # << >> =>
    IF \E k \in 1..Len(t2) : DiffersAt(k)
    THEN \E k \in 1..Len(t2) : /\ DiffersAt(k)
                                /\ \A j \in 1..(k - 1) : ~DiffersAt(j)
                                /\ compared[1] = <<2, k>>
    ELSE compared[1] = NoElement

\* C25, amended: trace_compare returns the first element of t2 that has no
\* element of t1 at its position or differs from it in address; NULL if none
C25_FirstDifferenceOrExtra ==
  compared # << >> =>
    IF \E k \in 1..Len(t2) : DiffersAt(k) \/ BeyondT1(k)
    THEN \E k \in 1..Len(t2) : /\ (DiffersAt(k) \/ BeyondT1(k))
                                /\ \A j \in 1..(k - 1) : ~DiffersAt(j) /\ ~BeyondT1(j)
                                /\ compared[1] = <<2, k>>
    ELSE compared[1] = NoElement

\* t1 is a proper prefix of t2 by address, and the call has returned
C25_Witness ==
  /\ compared # << >>
  /\ Len(t1) = 2
  /\ Len(t2) = 3
  /\ \A k \in 1..2 : t1[k].address = t2[k].address
  /\ t1[2] # t2[2]
  /\ compared[1] = <<2, 3>>


(***************************************************************************)
(* Order of the successors.                                                *)
(***************************************************************************)
IsPrefix(s, t) == Len(s) <= Len(t) /\ \A i \in 1..Len(s) : t[i] = s[i]

\* C26: no iteration of the loop overwrites, reorders or removes a slot of a
\* successor list: every list keeps its slots and grows at its end, by at
\* most one slot, so slot i holds the i-th successor installed
C26_SuccessorsAppendOnly ==
  [][\A n \in Nodes :
        /\ IsPrefix(SuccessorList(cfg_nodes, n), SuccessorList(cfg_nodes', n))
        /\ cfg_nodes'[n].nb_out <= cfg_nodes[n].nb_out + 1
        /\ cfg_nodes'[n].nb_out > cfg_nodes[n].nb_out =>
              SuccessorList(cfg_nodes', n)[cfg_nodes'[n].nb_out] = cfg']_vars

\* the jmp was followed by the call, then by the nop, then by the ret: its array
\* has grown from 2 to 4 slots and holds the three in that order
C26_Witness ==
  \E n \in Nodes :
     /\ TypeOf(n) = "JUMP"
     /\ cfg_nodes[n].nb_out = 3
     /\ Len(cfg_nodes[n].successor) = 4
     /\ [i \in 1..3 |-> AddressOf(cfg_nodes[n].successor[i])] = <<4096, 4101, 8193>>


(***************************************************************************)
(* Counters of the index.                                                  *)
(***************************************************************************)
\* the nodes stored in the buckets of h, one element per slot
StoredCount(h) ==
  LET RECURSIVE Sum(_)
      Sum(S) == IF S = {} THEN 0
                ELSE LET b == CHOOSE x \in S : TRUE
                     IN  Len(h.buckets[b]) + Sum(S \ {b})
  IN  Sum(DOMAIN h.buckets)

\* the bucket of the instruction holds a node at its address
AddressInBucket(h, nodes, instr) ==
  /\ BucketIndex[instr] \in DOMAIN h.buckets
  /\ \E k \in 1..Len(h.buckets[BucketIndex[instr]]) :
        nodes[h.buckets[BucketIndex[instr]][k]].instruction.address = instr.address

\* C27: after every insertion, entries is the number of nodes in the buckets
\* and collisions is entries minus the number of non-empty buckets; collisions
\* grows exactly when a node is appended to a non-empty bucket, and a node
\* whose address is in its bucket already changes no counter and no bucket
C27_IndexCounters ==
  [][\A in \in Inputs :
        New(in) =>
          LET instr == instr_new(in.ip, in.size, in.buf)
          IN  /\ hashtable_entries(ht') = StoredCount(ht')
              /\ hashtable_collisions(ht')
                   = hashtable_entries(ht') - Cardinality(DOMAIN ht'.buckets)
              /\ hashtable_collisions(ht') = hashtable_collisions(ht) + 1
                   <=> /\ BucketIndex[instr] \in DOMAIN ht.buckets
                       /\ ht'.buckets[BucketIndex[instr]]
                            = Append(ht.buckets[BucketIndex[instr]], Len(cfg_nodes'))
              /\ hashtable_collisions(ht') # hashtable_collisions(ht) + 1
                   => hashtable_collisions(ht') = hashtable_collisions(ht)
              /\ AddressInBucket(ht, cfg_nodes, instr) => ht' = ht]_vars

\* two nodes share a bucket, and a third one was handed in whose address was
\* in its bucket already
C27_Witness ==
  /\ Len(cfg_nodes) = 3
  /\ hashtable_entries(ht) = 2
  /\ hashtable_collisions(ht) = 1


(***************************************************************************)
(* CALL nodes in the blocks.                                               *)
(***************************************************************************)
\* the node lines 288-290 add for a self-loop: it carries the text of the entry
\* alone and has an edge to itself (no block that is a CALL alone has one)
IsTail(b) == Len(b) = 1 /\ <<b, b>> \in graph[1].g.edges

\* the positions of the emitted blocks that hold a CALL node
CallPositions ==
  {<<b, k>> \in graph[1].g.nodes \X (1..MaxSynth) :
      k <= Len(b) /\ TypeOf(NodeOfLine(b[k])) = "CALL" /\ ~IsTail(b)}

\* the slots of node c that hold a node at c.address + c.size
FollowingSlots(c) ==
  {i \in DOMAIN SuccessorList(cfg_nodes, c) :
      AddressOf(cfg_nodes[c].successor[i]) = AddressOf(c) + SizeOf(c)}

\* the successor of node c that lies right after it in memory: the first one
\* in the order of the slots, NULL when there is none
FallThroughNode(c) ==
  IF FollowingSlots(c) = {} THEN NULL
  ELSE cfg_nodes[c].successor[CHOOSE i \in FollowingSlots(c) :
                                 \A j \in FollowingSlots(c) : i <= j]

\* the same for the CALL at position p of a block
FallThroughOf(p) == FallThroughNode(NodeOfLine(p[1][p[2]]))

\* the block ends at position p and no edge leaves it
EndsBlock(p) ==
  /\ p[2] = Len(p[1])
  /\ \A e \in graph[1].g.edges : e[1] # p[1]

\* the block goes on after position p with the node c
GoesOnWith(p, c) ==
  /\ p[2] < Len(p[1])
  /\ p[1][p[2] + 1] = cfg_get_str(cfg_nodes, c)

ChainNext(c) ==
  IF TypeOf(c) = "BASIC"
  THEN IF cfg_nodes[c].nb_out = 1 THEN cfg_nodes[c].successor[1] ELSE NULL
  ELSE IF TypeOf(c) = "CALL" THEN FallThroughNode(c)
  ELSE NULL

\* the straight line that starts at c, cut where it would come back to itself
RECURSIVE ChainFrom(_, _)
ChainFrom(c, visited) ==
  IF ChainNext(c) = NULL \/ ChainNext(c) \in visited \cup {c} THEN <<c>>
  ELSE <<c>> \o ChainFrom(ChainNext(c), visited \cup {c})

\* from R the CFG is a chain of BASIC nodes and of CALL nodes with a
\* fall-through, with no join after R, that ends in a RET
StraightChain(R) ==
  LET chain == ChainFrom(R, {})
  IN  /\ TypeOf(chain[Len(chain)]) = "RET"
      /\ \A k \in 2..Len(chain) : cfg_nodes[chain[k]].nb_in <= 1

\* C29: from the root of such a chain synthesis emits one block and no edge,
\* and the block is the display texts of the chain, in order, each once
C29_StraightChainIsOneBlock ==
  graph # << >> /\ StraightChain(graph[1].entry) =>
    LET chain == ChainFrom(graph[1].entry, {})
    IN  /\ graph[1].outcome = "done"
        /\ graph[1].g.nodes = {[k \in 1..Len(chain) |-> cfg_get_str(cfg_nodes, chain[k])]}
        /\ graph[1].g.edges = {}

\* the chain call, nop, ret was drawn
C29_Witness ==
  /\ graph # << >>
  /\ StraightChain(graph[1].entry)
  /\ [k \in 1..Len(ChainFrom(graph[1].entry, {})) |->
        TypeOf(ChainFrom(graph[1].entry, {})[k])] = <<"CALL", "BASIC", "RET">>
  /\ Cardinality(graph[1].g.nodes) = 1


(***************************************************************************)
(* Successors of CALL nodes.                                               *)
(***************************************************************************)
\* nb_out of node n before the step (0 for a node the step creates)
OldNbOut(n) == IF n \in Nodes THEN cfg_nodes[n].nb_out ELSE 0

\* what a step leaves true of the CALL node n
CallSuccessorsAfterStep(n) ==
  /\ cfg_nodes'[n].nb_out <= 2
  \* slot 0 is filled by the first instruction observed right after the CALL
  /\ OldNbOut(n) = 0 /\ cfg_nodes'[n].nb_out >= 1 =>
       /\ cfg = n
       /\ cfg_nodes'[n].nb_out = 1
       /\ cfg_nodes'[n].successor[1] = cfg'
  /\ n = cfg /\ OldNbOut(n) = 0 /\ InsertStep =>
       /\ cfg' # NULL
       /\ cfg_nodes'[n].successor[1] = cfg'
  \* and is never replaced
  /\ OldNbOut(n) >= 1 => cfg_nodes'[n].successor[1] = cfg_nodes[n].successor[1]
  \* a further successor lies right after the CALL in memory
  /\ \A i \in 2..cfg_nodes'[n].nb_out :
        cfg_nodes'[cfg_nodes'[n].successor[i]].instruction.address
          = cfg_nodes'[n].instruction.address + cfg_nodes'[n].instruction.size
  \* and was added by a matched RET
  /\ OldNbOut(n) >= 1 /\ cfg_nodes'[n].nb_out > OldNbOut(n) =>
       /\ MatchedReturnStep
       /\ Head(stack) = n
       /\ cfg_nodes'[n].successor[cfg_nodes'[n].nb_out] = cfg'

\* the instruction in is observed right after the CALL node cfg, which has a
\* successor and none at the address of in
OtherTargetAfterCall(in) ==
  /\ cfg # NULL
  /\ status = "tracing"
  /\ TypeOf(cfg) = "CALL"
  /\ cfg_nodes[cfg].nb_out >= 1
  /\ ~HasSuccessorAt(cfg_nodes, cfg, in.ip)

\* the call succeeded with the node of in, no node got or lost a successor and
\* the in_degree of the node of in is what it was
SuccessWithoutEdge(in) ==
  /\ status' = "tracing"
  /\ cfg' # NULL
  /\ cfg_nodes'[cfg'].instruction.address = in.ip
  /\ cfg_nodes'[cfg'].nb_in = OldNbIn(cfg')
  /\ \A n \in Nodes : SuccessorList(cfg_nodes', n) = SuccessorList(cfg_nodes, n)
  /\ \A n \in 1..Len(cfg_nodes') : cfg_nodes'[n].nb_out = OldNbOut(n)

\* C30: a CALL node has at most 2 successors, slot 0 is the first instruction
\* observed right after it and stays, any further successor lies at
\* call.address + call.size and was added by a matched RET; another target
\* observed right after a CALL that has a successor succeeds without an edge
C30_CallSuccessors ==
  [][/\ \A n \in 1..Len(cfg_nodes') :
           cfg_nodes'[n].instruction.type = "CALL" => CallSuccessorsAfterStep(n)
     /\ \A in \in Inputs :
           (OtherTargetAfterCall(in) /\ Insert(in)) => SuccessWithoutEdge(in)]_vars

\* a CALL node has two successors, and the previous node, which is not the
\* first of the trace, is the successor of no node: it was observed right
\* after the CALL and got no edge
C30_Witness ==
  /\ cfg # NULL
  /\ status = "tracing"
  /\ cfg # 1
  /\ cfg_nodes[cfg].nb_in = 0
  /\ \A n \in Nodes : \A i \in DOMAIN SuccessorList(cfg_nodes, n) :
        SuccessorList(cfg_nodes, n)[i] # cfg
  /\ \E n \in Nodes :
        /\ TypeOf(n) = "CALL"
        /\ cfg_nodes[n].nb_out = 2
        /\ AddressOf(cfg_nodes[n].successor[2]) = AddressOf(n) + SizeOf(n)


(***************************************************************************)
(* What the shadow stack and the function roster refer to.                 *)
(***************************************************************************)
\* n is a node that exists, has not been released and is in a bucket of the index
StoredInIndex(n) ==
  /\ n # NULL
  /\ n \in Nodes
  /\ n \notin freed
  /\ n \in Indexed(ht)

\* C31: as long as every observe call has succeeded, every element of the
\* shadow stack is a CALL node stored in the index and every element of the
\* function roster is a node stored in the index
C31_StackAndRosterIndexed ==
  status = "tracing" =>
    /\ \A k \in DOMAIN stack : StoredInIndex(stack[k]) /\ TypeOf(stack[k]) = "CALL"
    /\ \A k \in DOMAIN first_entry : StoredInIndex(first_entry[k])

=============================================================================
